---- MODULE Spec2Model ----
\* Speech engine (tts.speak / tts.cancel) of the English-learning app, in its
\* three revisions, together with the browser objects it drives:
\*   "chunked"  src/unnamed/part_000   chunked Web Speech engine (__ttsAborted)
\*   "edge"     src/services/audio.ts  remote audio on mobile, Web Speech on desktop
\*   "pawan"    src/unnamed/part_004   the same with a different remote endpoint
\* JavaScript is single-threaded: every action below is one task (an API call,
\* a timer callback or an event handler) run to completion.
EXTENDS Integers, Sequences, FiniteSets, TLC

\* ---------------------------------------------------------------- bounds
MaxCalls == 2              \* speak() calls per run
SentenceLen == 110         \* length of one sentence of the long text

Sessions == 1..MaxCalls    \* the n-th speak() call is session n (its closure)
Impls == {"chunked", "edge", "pawan"}

\* ---------------------------------------------------------------- strings
\* A string is a sequence of UTF-16 units, each written as a one-unit string.
\* The CJK terminators of the split regex are written by name.
WS == {" ", "\n", "\t", "\r"}
Terminal == {".", "!", "?", ";", "\n", "CJK.", "CJK!", "CJK?", "CJK;"}

Rep(c, n) == [i \in 1..n |-> c]
Sentence(n) == Rep("a", n - 1) \o <<".">>

TextIds == {"empty", "blank", "long"}
TextOf ==
  ("empty" :> <<>>) @@ ("blank" :> <<" ">>)
  @@ ("long" :> Sentence(SentenceLen) \o <<" ">> \o Sentence(SentenceLen)
                \o <<" ">> \o Sentence(SentenceLen))

NonBlank(s) == {i \in 1..Len(s) : s[i] \notin WS}

MinOf(S) == CHOOSE i \in S : \A j \in S : i <= j
MaxOf(S) == CHOOSE i \in S : \A j \in S : i >= j

\* no trim: the text as it is
TrimNone(s) == s

\* String.prototype.trim: what lies between the first and the last unit that
\* is not white space
Trim(s) ==
  LET nonBlank == NonBlank(s)
  IN IF nonBlank = {} THEN <<>> ELSE SubSeq(s, MinOf(nonBlank), MaxOf(nonBlank))

\* replace(/\s+/g, " "): every maximal run of white space becomes one space,
\* that is, a white-space unit is kept (as a space) iff it starts its run
Collapse(s) ==
  LET tagged == [i \in 1..Len(s) |-> <<s[i], i > 1 /\ s[i - 1] \in WS>>]
      kept == SelectSeq(tagged, LAMBDA u : u[1] \notin WS \/ ~u[2])
  IN <<>> \o [i \in 1..Len(kept) |-> IF kept[i][1] \in WS THEN " " ELSE kept[i][1]]

\* end of the match of /(?<=[.!?;...\n])\s*/ at 0-based position q, -1 if none
RECURSIVE SkipWS(_, _)
SkipWS(s, q) == IF q < Len(s) /\ s[q + 1] \in WS THEN SkipWS(s, q + 1) ELSE q

MatchEnd(s, q) == IF q >= 1 /\ s[q] \in Terminal THEN SkipWS(s, q) ELSE -1

\* String.prototype.split with that regex. p is the start of the current
\* piece; the scan takes the first position q >= p, q < length, where the
\* regex matches and the match does not end at p (an empty match at p does not
\* split), emits s[p, q) and resumes at the end of the match.
RECURSIVE SplitFrom(_, _)
SplitFrom(s, p) ==
  LET found == {q \in p..(Len(s) - 1) : MatchEnd(s, q) \notin {-1, p}}
  IN IF found = {} THEN <<SubSeq(s, p + 1, Len(s))>>
     ELSE LET q == MinOf(found)
          IN <<SubSeq(s, p + 1, q)>> \o SplitFrom(s, MatchEnd(s, q))

Split(s) == SplitFrom(s, 0)

\* no hard split: an over-long sentence is kept whole
HardSplitWhole(sentence, maxLen) == <<sentence>>

\* the hard split of one over-long sentence: slice(i, i + maxLen) for
\* i = 0, maxLen, 2 * maxLen, ... below the length of the sentence
HardSplit(sentence, maxLen) ==
  LET starts == {i \in 0..(Len(sentence) - 1) : i % maxLen = 0}
  IN [k \in 1..Cardinality(starts) |->
        SubSeq(sentence, (k - 1) * maxLen + 1,
               IF k * maxLen < Len(sentence) THEN k * maxLen ELSE Len(sentence))]

\* the loop as it would be if it never merged: every sentence is flushed
\* before the next is taken
RECURSIVE PackEach(_, _, _, _)
PackEach(sentences, buffer, chunks, maxLen) ==
  IF sentences = <<>> THEN chunks
  ELSE PackEach(Tail(sentences), buffer,
                IF Len(Head(sentences)) > maxLen
                THEN chunks \o HardSplit(Head(sentences), maxLen)
                ELSE Append(chunks, Head(sentences)),
                maxLen)

\* the for loop of chunkText over the sentences, with its buffer and chunks
RECURSIVE Pack(_, _, _, _)
Pack(sentences, buffer, chunks, maxLen) ==
  IF sentences = <<>>
  THEN IF buffer # <<>> THEN Append(chunks, buffer) ELSE chunks
  ELSE LET sentence == Head(sentences)
           rest == Tail(sentences)
       IN IF Len(buffer) + Len(sentence) + 1 <= maxLen
          THEN Pack(rest,
                    IF buffer # <<>> THEN buffer \o <<" ">> \o sentence ELSE sentence,
                    chunks, maxLen)
          ELSE LET flushed == IF buffer # <<>> THEN Append(chunks, buffer) ELSE chunks
               IN IF Len(sentence) > maxLen
                  THEN Pack(rest, <<>>, flushed \o HardSplit(sentence, maxLen), maxLen)
                  ELSE Pack(rest, sentence, flushed, maxLen)

chunkText(text, maxLen) ==
  LET clean == Collapse(Trim(text))
  IN IF clean = <<>> THEN <<>>
     ELSE SelectSeq(Pack(Split(clean), <<>>, <<>>, maxLen), LAMBDA c : c # <<>>)

MaxChunkMobile == 150
MaxChunkDesktop == 220

\* content = (text || "").trim() of speak(), for every text
ContentOf ==
  ("empty" :> Trim(TextOf["empty"])) @@ ("blank" :> Trim(TextOf["blank"]))
  @@ ("long" :> Trim(TextOf["long"]))

\* chunks of every text, per platform, as run() computes them from content
ChunksFor(maxLen) ==
  ("empty" :> chunkText(ContentOf["empty"], maxLen))
  @@ ("blank" :> chunkText(ContentOf["blank"], maxLen))
  @@ ("long" :> chunkText(ContentOf["long"], maxLen))

ChunkTable == (TRUE :> ChunksFor(MaxChunkMobile)) @@ (FALSE :> ChunksFor(MaxChunkDesktop))

\* ---------------------------------------------------------------- state
VARIABLES
  impl,                  \* which revision of the engine is loaded
  mobile,                \* isMobile()
  hasSpeech,             \* window.speechSynthesis exists
  str,                   \* a text given to the functions on texts
  maxLenArg,             \* the maxLen given to chunkText
  voiceList,             \* a list of voices given to the voice selection
  ret,                   \* the function last applied to its input and what it returned
  isPlaying,             \* component state: isPlaying
  playMode,              \* SentenceModule state: playMode
  isLooping,             \* SentenceModule state: isLooping
  spokenIdx,       \* component state: spokenIdx
  startup,               \* tts.speak calls of a component whose 50 ms timer is pending
  utterances,            \* tts.speak calls of a component that the browser is playing
  timers,                \* pending setTimeout callbacks of the component
  act,                   \* the handler of the component that ran last
  activeSentence,        \* TextModule state: activeSentence, as an index of flatPlayList
  log,                   \* the tts.speak calls of TextModule since the last user action
  mounted,               \* QuizModal is mounted
  loading,               \* QuizModal state: loading
  questions,             \* QuizModal state: questions
  quizIndex,             \* QuizModal state: currentIndex
  quizFinished,          \* QuizModal state: quizFinished
  selectedOption,        \* QuizModal state: selectedOption
  isAnswered,            \* QuizModal state: isAnswered
  score,                 \* QuizModal state: score
  dbUnits,               \* localStorage: linguaflow_units
  dbWords,               \* localStorage: linguaflow_words
  dbSentences,           \* localStorage: linguaflow_sentences
  dbTexts,               \* localStorage: linguaflow_texts
  keepAliveTimer,        \* module variable: 0 (null) or an interval id
  activeSpeechUtterance, \* window.__activeSpeechUtterance
  activeMobileAudio,     \* window.__activeMobileAudio: 0 (null) or an audio id
  ttsAborted,            \* window.__ttsAborted (undefined is falsy)
  nCalls,                \* speak() calls made so far
  textArg,               \* text argument of each call
  phase,                 \* where the asynchronous flow of each call stands
  idx,                   \* speakChunk's index: the chunk last handed to the engine
  globalCharOffset,      \* run()'s local of that name
  poll,                  \* waitForVoices: the poll interval is live
  queue,                 \* engine: utterances handed over and not yet ended
  stopped,               \* engine: utterances removed by cancel(), their error event pending
  voicesLoaded,          \* engine: getVoices() is non-empty
  audio,                 \* state of the audio element each call created
  intervals,             \* live setInterval ids of the keep-alive
  status,                \* what the caller did to each call since it was made
  race,                  \* the call was pre-empted before any callback of it ran
  onEndCount,            \* invocations of the call's onEnd
  last                   \* the task that led here and what it let the outside see

ui == <<isPlaying, playMode, isLooping, spokenIdx, startup, utterances, timers, act,
        activeSentence, log>>
quiz == <<mounted, loading, questions, quizIndex, quizFinished, selectedOption, isAnswered, score>>
storage == <<dbUnits, dbWords, dbSentences, dbTexts>>
cfg == <<impl, mobile, hasSpeech, str, maxLenArg, voiceList, ret, ui, quiz, storage>>
prog == <<keepAliveTimer, activeSpeechUtterance, activeMobileAudio, ttsAborted>>
sess == <<nCalls, textArg, phase, idx, globalCharOffset, poll>>
env == <<queue, stopped, voicesLoaded, audio, intervals>>
obs == <<status, race, onEndCount, last>>
vars == <<cfg, prog, sess, env, obs>>

\* an utterance is named by the call and the chunk index its handlers close over
NoUtterance == <<0, 0>>

Phases == {"none", "returned", "sleep", "voices", "notified", "chunk", "gap",
           "audio", "over"}
AudioStates == {"none", "playing", "blocked", "paused", "unloaded", "finished"}
Statuses == {"none", "live", "cancelled", "preempted"}

\* the closure constants of run(): chunks of the call's text
Chunks(s) == ChunkTable[mobile][textArg[s]]

\* a voiceschanged dispatch is in progress: its listeners run before any
\* other task
Quiet == \A s \in Sessions : phase[s] # "notified"

\* a component as it is mounted
NoSentence == -1
NoOption == -1
InitUi ==
  /\ isPlaying = FALSE
  /\ playMode = "normal"
  /\ isLooping = FALSE
  /\ spokenIdx = -1
  /\ startup = <<>>
  /\ utterances = <<>>
  /\ timers = {}
  /\ act = [task |-> "mount", spoke |-> FALSE]
  /\ activeSentence = NoSentence
  /\ log = <<>>
  /\ mounted = TRUE
  /\ loading = TRUE
  /\ questions = <<>>
  /\ quizIndex = 0
  /\ quizFinished = FALSE
  /\ selectedOption = NoOption
  /\ isAnswered = FALSE
  /\ score = 0
  /\ dbUnits = <<>>
  /\ dbWords = <<>>
  /\ dbSentences = <<>>
  /\ dbTexts = <<>>

\* the engine as the module leaves it when loaded
InitEngine ==
  /\ keepAliveTimer = 0
  /\ activeSpeechUtterance = NoUtterance
  /\ activeMobileAudio = 0
  /\ ttsAborted = FALSE
  /\ nCalls = 0
  /\ textArg = [s \in Sessions |-> "empty"]
  /\ phase = [s \in Sessions |-> "none"]
  /\ idx = [s \in Sessions |-> 0]
  /\ globalCharOffset = [s \in Sessions |-> 0]
  /\ poll = [s \in Sessions |-> FALSE]
  /\ queue = <<>>
  /\ stopped = <<>>
  /\ audio = [s \in Sessions |-> "none"]
  /\ intervals = {}
  /\ status = [s \in Sessions |-> "none"]
  /\ race = [s \in Sessions |-> FALSE]
  /\ onEndCount = [s \in Sessions |-> 0]
  /\ last = [task |-> "init", call |-> 0, emit |-> "nothing", offset |-> -1, stops |-> 0]

Init ==
  /\ impl \in Impls
  /\ mobile \in BOOLEAN
  /\ hasSpeech \in BOOLEAN
  /\ voicesLoaded \in (IF hasSpeech THEN BOOLEAN ELSE {FALSE})
  /\ str = <<>>
  /\ maxLenArg = MaxChunkDesktop
  /\ voiceList = <<>>
  /\ ret = [fn |-> "none"]
  /\ InitUi
  /\ InitEngine

TypeOK ==
  /\ impl \in Impls /\ mobile \in BOOLEAN /\ hasSpeech \in BOOLEAN
  /\ keepAliveTimer \in 0..MaxCalls
  /\ activeSpeechUtterance \in (0..MaxCalls) \X Nat
  /\ activeMobileAudio \in 0..MaxCalls
  /\ ttsAborted \in BOOLEAN
  /\ nCalls \in 0..MaxCalls
  /\ textArg \in [Sessions -> TextIds]
  /\ phase \in [Sessions -> Phases]
  /\ idx \in [Sessions -> Nat]
  /\ globalCharOffset \in [Sessions -> Nat]
  /\ poll \in [Sessions -> BOOLEAN]
  /\ queue \in Seq(Sessions \X Nat)
  /\ stopped \in Seq(Sessions \X Nat)
  /\ voicesLoaded \in BOOLEAN
  /\ audio \in [Sessions -> AudioStates]
  /\ intervals \subseteq Sessions
  /\ status \in [Sessions -> Statuses]
  /\ race \in [Sessions -> BOOLEAN]
  /\ onEndCount \in [Sessions -> 0..2]
  /\ last.call \in 0..MaxCalls
  /\ last.emit \in {"nothing", "end", "boundary", "handed"}

\* ---------------------------------------------------------------- observers
\* The task named task ran for call s. emit is what it let the outside see:
\* "end" an onEnd invocation, "boundary" an onBoundary invocation with offset,
\* "handed" an utterance or audio of s given to the backend. stops counts the
\* stop operations it issued on the backend.
Did(task, s, emit, offset, stops) ==
  /\ last' = [task |-> task, call |-> s, emit |-> emit, offset |-> offset, stops |-> stops]
  /\ onEndCount' = [onEndCount EXCEPT ![s] = IF emit = "end" /\ @ < 2 THEN @ + 1 ELSE @]

\* a timer callback or an event handler ran
Task(task, s, emit) == Did(task, s, emit, -1, 0) /\ UNCHANGED <<status, race>>

\* no timer and no backend callback of call s has run yet: its startup
\* timer is pending, or its audio element has fired no event
Fresh(s) == phase[s] = "sleep" \/ (phase[s] = "audio" /\ audio[s] \in {"playing", "blocked"})

\* speak() is called as call s: every earlier live call is pre-empted
Called(s, resets) ==
  /\ status' = [k \in Sessions |->
                  IF k = s THEN "live"
                  ELSE IF status[k] = "live" THEN "preempted" ELSE status[k]]
  /\ race' = [k \in Sessions |-> race[k] \/ (resets /\ status[k] = "live" /\ Fresh(k))]

\* cancel() is called: every live call is cancelled
Cancelled ==
  /\ status' = [k \in Sessions |-> IF status[k] = "live" THEN "cancelled" ELSE status[k]]
  /\ UNCHANGED race

\* ---------------------------------------------------------------- browser
\* speechSynthesis.cancel(): the queue is emptied; every removed utterance
\* later gets an error event "interrupted" or "canceled". The engine fires
\* the events of its utterances in the order it finished with them.
EngineCancelQueue == <<>>
EngineCancelStopped == stopped \o queue

\* the flow of a call whose utterance the engine dropped has nothing left
\* to run but the handler of that error event
EngineCancelPhase ==
  [s \in Sessions |-> IF \E i \in 1..Len(queue) : queue[i][1] = s THEN "over" ELSE phase[s]]

\* the locals of a flow that is over are dropped
Locals(f, ph) == [s \in Sessions |-> IF ph[s] = "over" THEN 0 ELSE f[s]]

\* the engine has an event to fire for the utterance it is speaking
Reporting == queue # <<>> /\ stopped = <<>>

\* speechSynthesis.speaking
Speaking == queue # <<>>

\* ---------------------------------------------------------------- part_000
\* cleanUp(): clearInterval(keepAliveTimer), keepAliveTimer = null, handle = null
CleanUpIntervals == intervals \ {keepAliveTimer}

\* tts.speak of part_000
SpeakChunked(t) ==
  /\ impl = "chunked"
  /\ Quiet
  /\ nCalls < MaxCalls
  /\ LET s == nCalls + 1
         content == ContentOf[t]
         sync == ~hasSpeech \/ content = <<>>
     IN /\ nCalls' = s
        /\ textArg' = [textArg EXCEPT ![s] = t]
        /\ Called(s, ~sync)
        /\ Did("speak", s, IF sync THEN "end" ELSE "nothing", -1, IF sync THEN 0 ELSE 1)
        /\ phase' = [(IF sync THEN phase ELSE EngineCancelPhase) EXCEPT
                       ![s] = IF sync THEN "returned" ELSE "sleep"]
        /\ idx' = Locals(idx, phase')
        /\ globalCharOffset' = Locals(globalCharOffset, phase')
        /\ IF sync
           THEN UNCHANGED <<prog, queue, stopped, intervals>>
           ELSE /\ ttsAborted' = FALSE
                /\ queue' = EngineCancelQueue
                /\ stopped' = EngineCancelStopped
                /\ intervals' = CleanUpIntervals
                /\ keepAliveTimer' = 0
                /\ activeSpeechUtterance' = NoUtterance
                /\ UNCHANGED activeMobileAudio
        /\ UNCHANGED <<cfg, poll, voicesLoaded, audio>>

\* tts.cancel of part_000
CancelChunked ==
  /\ impl = "chunked"
  /\ Quiet
  /\ ttsAborted' = TRUE
  /\ queue' = EngineCancelQueue
  /\ stopped' = EngineCancelStopped
  /\ intervals' = CleanUpIntervals
  /\ keepAliveTimer' = 0
  /\ activeSpeechUtterance' = NoUtterance
  /\ Cancelled
  /\ phase' = EngineCancelPhase
  /\ idx' = Locals(idx, phase')
  /\ globalCharOffset' = Locals(globalCharOffset, phase')
  /\ Did("cancel", 0, "nothing", -1, IF hasSpeech THEN 1 ELSE 0)
  /\ UNCHANGED <<cfg, activeMobileAudio, nCalls, textArg, poll, voicesLoaded, audio>>

\* speakChunk(index) of call s, run by task. throws: speechSynthesis.speak()
\* throws; startKeepAlive: the call comes from run(), which then sets the
\* keep-alive. The locals of a flow that has ended are dropped.
SpeakChunk(task, s, index, throws, startKeepAlive) ==
  LET outcome == IF ttsAborted THEN "aborted"
                 ELSE IF index >= Len(Chunks(s)) THEN "finished"
                 ELSE IF throws THEN "threw" ELSE "spoken"
      cleaned == outcome # "spoken"
      keepAlive == startKeepAlive /\ ~mobile
  IN /\ throws => (~ttsAborted /\ index < Len(Chunks(s)))
     /\ activeSpeechUtterance' = IF cleaned THEN NoUtterance ELSE <<s, index>>
     /\ intervals' = (IF cleaned THEN CleanUpIntervals ELSE intervals)
                     \cup (IF keepAlive THEN {s} ELSE {})
     /\ keepAliveTimer' = IF keepAlive THEN s ELSE IF cleaned THEN 0 ELSE keepAliveTimer
     /\ queue' = IF outcome = "spoken" THEN Append(queue, <<s, index>>) ELSE queue
     /\ phase' = [phase EXCEPT ![s] = IF outcome = "spoken" THEN "chunk" ELSE "over"]
     /\ idx' = [idx EXCEPT ![s] = IF outcome = "spoken" THEN index ELSE 0]
     /\ globalCharOffset' = [globalCharOffset EXCEPT ![s] = IF outcome = "spoken" THEN @ ELSE 0]
     /\ Task(task, s, CASE outcome = "spoken" -> "handed"
                        [] outcome = "aborted" -> "nothing"
                        [] OTHER -> "end")
     /\ UNCHANGED <<cfg, activeMobileAudio, ttsAborted, nCalls, textArg, stopped,
                    voicesLoaded, audio>>

\* the startup sleep of run() ends; equal delays fire in the order they were set
SleepDone(s, throws) ==
  /\ impl = "chunked"
  /\ Quiet
  /\ phase[s] = "sleep"
  /\ \A k \in Sessions : k < s => phase[k] # "sleep"
  /\ IF voicesLoaded
     THEN SpeakChunk("SleepDone", s, 0, throws, TRUE) /\ UNCHANGED poll
     ELSE /\ ~throws
          /\ phase' = [phase EXCEPT ![s] = "voices"]
          /\ poll' = [poll EXCEPT ![s] = TRUE]
          /\ Task("SleepDone", s, "nothing")
          /\ UNCHANGED <<cfg, prog, nCalls, textArg, idx, globalCharOffset, env>>

\* that tick as it would be without its clearInterval(poll)
PollResolveKeepsPolling(s, timedOut, throws) ==
  /\ impl = "chunked"
  /\ Quiet
  /\ poll[s]
  /\ phase[s] = "voices"
  /\ voicesLoaded \/ timedOut
  /\ UNCHANGED poll
  /\ SpeakChunk("PollResolve", s, 0, throws, TRUE)

\* a tick of the poll interval of waitForVoices that ends the wait
PollResolve(s, timedOut, throws) ==
  /\ impl = "chunked"
  /\ Quiet
  /\ poll[s]
  /\ phase[s] = "voices"
  /\ voicesLoaded \/ timedOut
  /\ poll' = [poll EXCEPT ![s] = FALSE]
  /\ SpeakChunk("PollResolve", s, 0, throws, TRUE)

\* a tick of the poll interval after the event has resolved the wait
PollStop(s) ==
  /\ impl = "chunked"
  /\ Quiet
  /\ poll[s]
  /\ phase[s] # "voices"
  /\ voicesLoaded
  /\ poll' = [poll EXCEPT ![s] = FALSE]
  /\ Task("PollStop", s, "nothing")
  /\ UNCHANGED <<cfg, prog, nCalls, textArg, phase, idx, globalCharOffset, env>>

\* the inter-chunk timer as it would be if it passed index + 2
GapTimerSkips(s, throws) ==
  /\ impl = "chunked"
  /\ Quiet
  /\ phase[s] = "gap"
  /\ SpeakChunk("GapTimer", s, idx[s] + 2, throws, FALSE)
  /\ UNCHANGED poll

\* the inter-chunk timer set by utterance.onend fires
GapTimer(s, throws) ==
  /\ impl = "chunked"
  /\ Quiet
  /\ phase[s] = "gap"
  /\ SpeakChunk("GapTimer", s, idx[s] + 1, throws, FALSE)
  /\ UNCHANGED poll

\* ---------------------------------------------------------------- audio.ts, part_004
Hybrid == {"edge", "pawan"}

\* tts.cancel of audio.ts and part_004, as the values it leaves behind.
\* audio.ts clears the interval but keeps its id; part_004 also nulls it.
\* audio.ts pauses the active audio; part_004 also empties its src, for which
\* the element fires an error event.
CancelQueue == IF hasSpeech THEN EngineCancelQueue ELSE queue
CancelStopped == IF hasSpeech THEN EngineCancelStopped ELSE stopped
CancelPhase == IF hasSpeech THEN EngineCancelPhase ELSE phase
\* cancel() as it would be without its clearInterval(keepAliveTimer)
CancelIntervalsKept == intervals
CancelIntervals == intervals \ {keepAliveTimer}
CancelKeepAliveTimer == IF impl = "pawan" THEN 0 ELSE keepAliveTimer
CancelAudio ==
  IF activeMobileAudio = 0 THEN audio
  ELSE [audio EXCEPT ![activeMobileAudio] =
          IF impl = "pawan" THEN "unloaded"
          ELSE IF @ = "playing" THEN "paused" ELSE @]
CancelStops == (IF hasSpeech THEN 1 ELSE 0) + (IF activeMobileAudio # 0 THEN 1 ELSE 0)

CancelHybrid ==
  /\ impl \in Hybrid
  /\ Quiet
  /\ queue' = CancelQueue
  /\ stopped' = CancelStopped
  /\ intervals' = CancelIntervals
  /\ keepAliveTimer' = CancelKeepAliveTimer
  /\ activeSpeechUtterance' = NoUtterance
  /\ audio' = CancelAudio
  /\ activeMobileAudio' = 0
  /\ Cancelled
  /\ phase' = CancelPhase
  /\ Did("cancel", 0, "nothing", -1, CancelStops)
  /\ UNCHANGED <<cfg, ttsAborted, nCalls, textArg, idx, globalCharOffset, poll, voicesLoaded>>

\* tts.speak of audio.ts and part_004. play: what new Audio(url) and
\* audio.play() do on the mobile branch: "playing", "blocked" (the play()
\* promise rejects) or "throws" (the constructor throws)
SpeakHybrid(t, play) ==
  /\ impl \in Hybrid
  /\ Quiet
  /\ nCalls < MaxCalls
  /\ LET s == nCalls + 1
         empty == TextOf[t] = <<>>
         branch == IF empty THEN "empty"
                   ELSE IF mobile THEN "mobile"
                   ELSE IF ~hasSpeech THEN "unsupported" ELSE "desktop"
     IN /\ nCalls' = s
        /\ textArg' = [textArg EXCEPT ![s] = t]
        /\ play # "playing" => branch = "mobile"
        /\ Called(s, ~empty)
        /\ Did("speak", s,
               CASE branch = "empty" -> "end"
                 [] branch = "mobile" -> IF play = "throws" THEN "end" ELSE "handed"
                 [] branch = "unsupported" -> IF impl = "pawan" THEN "end" ELSE "nothing"
                 [] OTHER -> "nothing",
               -1,
               IF empty THEN 0
               ELSE CancelStops + (IF branch = "desktop" /\ impl = "edge" THEN 1 ELSE 0))
        /\ phase' = [(IF empty THEN phase ELSE CancelPhase) EXCEPT ![s] =
                       CASE branch = "mobile" /\ play # "throws" -> "audio"
                         [] branch = "desktop" -> "sleep"
                         [] OTHER -> "returned"]
        /\ IF empty
           THEN UNCHANGED <<prog, queue, stopped, intervals, audio>>
           ELSE /\ queue' = CancelQueue
                /\ stopped' = CancelStopped
                /\ intervals' = CancelIntervals
                /\ keepAliveTimer' = CancelKeepAliveTimer
                /\ activeSpeechUtterance' = NoUtterance
                /\ audio' = IF branch = "mobile" /\ play # "throws"
                            THEN [CancelAudio EXCEPT ![s] = play]
                            ELSE CancelAudio
                /\ activeMobileAudio' = IF branch = "mobile" /\ play # "throws" THEN s ELSE 0
                /\ UNCHANGED ttsAborted
        /\ UNCHANGED <<cfg, idx, globalCharOffset, poll, voicesLoaded>>

\* runSpeak() of call s, run by task; throws: speechSynthesis.speak() throws,
\* which nothing catches, so the rest of runSpeak is skipped
RunSpeak(task, s, throws) ==
  /\ activeSpeechUtterance' = <<s, 0>>
  /\ queue' = IF throws THEN queue ELSE Append(queue, <<s, 0>>)
  /\ keepAliveTimer' = IF throws THEN keepAliveTimer ELSE s
  /\ intervals' = IF throws THEN intervals ELSE intervals \cup {s}
  /\ phase' = [phase EXCEPT ![s] = IF throws THEN "over" ELSE "chunk"]
  /\ Task(task, s, IF throws THEN "nothing" ELSE "handed")
  /\ UNCHANGED <<cfg, activeMobileAudio, ttsAborted, nCalls, textArg, idx, globalCharOffset,
                 poll, stopped, voicesLoaded, audio>>

\* the 50 ms timer of speak() fires
StartupTimer(s, throws) ==
  /\ impl \in Hybrid
  /\ Quiet
  /\ phase[s] = "sleep"
  /\ \A k \in Sessions : k < s => phase[k] # "sleep"
  /\ IF voicesLoaded
     THEN RunSpeak("StartupTimer", s, throws)
     ELSE /\ ~throws
          /\ phase' = [phase EXCEPT ![s] = "voices"]
          /\ Task("StartupTimer", s, "nothing")
          /\ UNCHANGED <<cfg, prog, nCalls, textArg, idx, globalCharOffset, poll, env>>

\* audio.onended
AudioEnded(a) ==
  /\ impl \in Hybrid
  /\ Quiet
  /\ audio[a] = "playing"
  /\ audio' = [audio EXCEPT ![a] = "finished"]
  /\ activeMobileAudio' = 0
  /\ phase' = [phase EXCEPT ![a] = "over"]
  /\ Task("AudioEnded", a, "end")
  /\ UNCHANGED <<cfg, keepAliveTimer, activeSpeechUtterance, ttsAborted, nCalls, textArg, idx,
                 globalCharOffset, poll, queue, stopped, voicesLoaded, intervals>>

\* audio.onerror: a network or decoding error of a playing element
\* ("AudioError"), or the error an element fires once its src has been
\* emptied ("AudioUnloaded")
AudioError(a) ==
  /\ impl \in Hybrid
  /\ Quiet
  /\ audio[a] \in {"playing", "unloaded"}
  /\ audio' = [audio EXCEPT ![a] = "finished"]
  /\ activeMobileAudio' = 0
  /\ phase' = [phase EXCEPT ![a] = "over"]
  /\ Task(IF audio[a] = "unloaded" THEN "AudioUnloaded" ELSE "AudioError", a, "end")
  /\ UNCHANGED <<cfg, keepAliveTimer, activeSpeechUtterance, ttsAborted, nCalls, textArg, idx,
                 globalCharOffset, poll, queue, stopped, voicesLoaded, intervals>>

\* ---------------------------------------------------------------- engine events
\* the text of the utterance <<s, i>>
Piece(s, i) == IF impl = "chunked" THEN Chunks(s)[i + 1] ELSE TextOf[textArg[s]]

\* character indices the engine reports for a piece: of its first unit, or
\* of its last
CharIndex(piece, atEnd) == IF atEnd THEN Len(piece) - 1 ELSE 0

\* utterance.onboundary of the utterance being spoken
UtteranceBoundary(atEnd) ==
  /\ Quiet
  /\ Reporting
  /\ LET s == Head(queue)[1]
         charIndex == CharIndex(Piece(s, Head(queue)[2]), atEnd)
     IN Did("UtteranceBoundary", s, "boundary",
            IF impl = "chunked" THEN globalCharOffset[s] + charIndex ELSE charIndex, 0)
  /\ UNCHANGED <<cfg, prog, sess, env, status, race>>

\* utterance.onend of the utterance being spoken
UtteranceEnd ==
  /\ Quiet
  /\ Reporting
  /\ LET s == Head(queue)[1]
         i == Head(queue)[2]
     IN /\ queue' = Tail(queue)
        /\ IF impl = "chunked"
           THEN /\ globalCharOffset' =
                     [globalCharOffset EXCEPT ![s] = @ + Len(Piece(s, i)) + 1]
                /\ phase' = [phase EXCEPT ![s] = "gap"]
                /\ Task("UtteranceEnd", s, "nothing")
                /\ UNCHANGED <<prog, intervals>>
           ELSE /\ intervals' = intervals \ {keepAliveTimer}
                /\ activeSpeechUtterance' = NoUtterance
                /\ phase' = [phase EXCEPT ![s] = "over"]
                /\ Task("UtteranceEnd", s, "end")
                /\ UNCHANGED <<keepAliveTimer, activeMobileAudio, ttsAborted, globalCharOffset>>
  /\ UNCHANGED <<cfg, nCalls, textArg, idx, poll, stopped, voicesLoaded, audio>>

\* utterance.onerror as it would be if it returned at once for every error
UtteranceErrorSwallowed ==
  /\ Quiet
  /\ Reporting
  /\ queue' = Tail(queue)
  /\ Task("UtteranceError", Head(queue)[1], "nothing")
  /\ UNCHANGED <<cfg, prog, sess, stopped, voicesLoaded, audio, intervals>>

\* utterance.onerror of the utterance being spoken, with an error other than
\* "interrupted" and "canceled"
UtteranceError ==
  /\ Quiet
  /\ Reporting
  /\ LET s == Head(queue)[1]
     IN /\ queue' = Tail(queue)
        /\ intervals' = intervals \ {keepAliveTimer}
        /\ keepAliveTimer' = IF impl = "chunked" THEN 0 ELSE keepAliveTimer
        /\ activeSpeechUtterance' = NoUtterance
        /\ phase' = [phase EXCEPT ![s] = "over"]
        /\ idx' = [idx EXCEPT ![s] = 0]
        /\ globalCharOffset' = [globalCharOffset EXCEPT ![s] = 0]
        /\ Task("UtteranceError", s, "end")
  /\ UNCHANGED <<cfg, activeMobileAudio, ttsAborted, nCalls, textArg, poll, stopped,
                 voicesLoaded, audio>>

\* utterance.onerror as it would be without the test for "interrupted" and
\* "canceled": it cleans up and invokes onEnd
UtteranceInterruptedReported ==
  /\ Quiet
  /\ stopped # <<>>
  /\ stopped' = Tail(stopped)
  /\ intervals' = intervals \ {keepAliveTimer}
  /\ keepAliveTimer' = IF impl = "chunked" THEN 0 ELSE keepAliveTimer
  /\ activeSpeechUtterance' = NoUtterance
  /\ Task("UtteranceInterrupted", Head(stopped)[1], "end")
  /\ UNCHANGED <<cfg, activeMobileAudio, ttsAborted, sess, queue, voicesLoaded, audio>>

\* utterance.onerror with "interrupted" or "canceled", of an utterance that
\* speechSynthesis.cancel() removed: the handler returns at once
UtteranceInterrupted ==
  /\ Quiet
  /\ stopped # <<>>
  /\ stopped' = Tail(stopped)
  /\ Task("UtteranceInterrupted", Head(stopped)[1], "nothing")
  /\ UNCHANGED <<cfg, prog, sess, queue, voicesLoaded, audio, intervals>>

\* the voiceschanged event: the list is loaded and every waiting listener is
\* notified
VoicesChanged ==
  /\ Quiet
  /\ hasSpeech
  /\ ~voicesLoaded
  /\ voicesLoaded' = TRUE
  /\ phase' = [s \in Sessions |-> IF phase[s] = "voices" THEN "notified" ELSE phase[s]]
  /\ Task("VoicesChanged", 0, "nothing")
  /\ UNCHANGED <<cfg, prog, nCalls, textArg, idx, globalCharOffset, poll, queue, stopped,
                 audio, intervals>>

\* a notified listener runs, in the order the listeners were added: handler
\* of waitForVoices followed by the rest of run(), or onVoicesChanged
VoicesListener(s, throws) ==
  /\ phase[s] = "notified"
  /\ \A k \in Sessions : k < s => phase[k] # "notified"
  /\ IF impl = "chunked"
     THEN SpeakChunk("VoicesListener", s, 0, throws, TRUE)
     ELSE RunSpeak("VoicesListener", s, throws)
  /\ UNCHANGED poll

\* a tick of a keep-alive interval: pause() and resume() while the engine
\* speaks, which changes nothing here; else the interval the module variable
\* names is cleared
KeepAliveTick(id) ==
  /\ Quiet
  /\ id \in intervals
  /\ IF Speaking
     THEN UNCHANGED <<keepAliveTimer, intervals, obs>>
     ELSE /\ intervals' = intervals \ {keepAliveTimer}
          /\ keepAliveTimer' = IF impl = "chunked" THEN 0 ELSE keepAliveTimer
          /\ Task("KeepAliveTick", 0, "nothing")
  /\ UNCHANGED <<cfg, activeSpeechUtterance, activeMobileAudio, ttsAborted, sess, queue,
                 stopped, voicesLoaded, audio>>

\* ---------------------------------------------------------------- specification
PlayOutcomes == {"playing", "blocked", "throws"}

Next ==
  \/ \E t \in TextIds : SpeakChunked(t)
  \/ CancelChunked
  \/ \E s \in Sessions, throws \in BOOLEAN : SleepDone(s, throws)
  \/ \E s \in Sessions, timedOut \in BOOLEAN, throws \in BOOLEAN : PollResolve(s, timedOut, throws)
  \/ \E s \in Sessions : PollStop(s)
  \/ \E s \in Sessions, throws \in BOOLEAN : GapTimer(s, throws)
  \/ \E t \in TextIds, play \in PlayOutcomes : SpeakHybrid(t, play)
  \/ CancelHybrid
  \/ \E s \in Sessions, throws \in BOOLEAN : StartupTimer(s, throws)
  \/ \E a \in Sessions : AudioEnded(a)
  \/ \E a \in Sessions : AudioError(a)
  \/ \E atEnd \in BOOLEAN : UtteranceBoundary(atEnd)
  \/ UtteranceEnd
  \/ UtteranceError
  \/ UtteranceInterrupted
  \/ VoicesChanged
  \/ \E s \in Sessions, throws \in BOOLEAN : VoicesListener(s, throws)
  \/ \E id \in Sessions : KeepAliveTick(id)

Spec == Init /\ [][Next]_vars

\* ---------------------------------------------------------------- functions on texts
MaxTextLen == 5            \* length of the texts the functions are applied to
MaxLenArg == 3             \* largest maxLen given to chunkText

Alphabet == {"a", " ", "."}

\* a character outside the basic plane, as the two units a JavaScript
\* string holds for it: a high and a low surrogate
Pair == <<"HI", "LO">>
PairTexts == {<<"a">> \o Pair, Pair \o Pair}

\* every text of up to MaxTextLen units, one word too long for one chunk,
\* and texts with surrogate pairs
Strings ==
  UNION {[1..n -> Alphabet] : n \in 0..MaxTextLen}
  \cup {Rep("a", MaxChunkDesktop + 1)} \cup PairTexts

\* a call chunkText("Hello world. This is a test.", 15)
Example ==
  [text |-> <<"H", "e", "l", "l", "o", " ", "w", "o", "r", "l", "d", ".", " ",
              "T", "h", "i", "s", " ", "i", "s", " ", "a", " ", "t", "e", "s", "t", ".">>,
   maxLen |-> 15]

\* the texts and maxLen the functions are applied to
Inputs == (Strings \X (1..MaxLenArg)) \cup {<<Example.text, Example.maxLen>>}

\* globalCharOffset of run() when chunk i (from 0) is handed over: every
\* onend before it has added the length of its piece and 1
RECURSIVE OffsetOf(_, _)
OffsetOf(chunks, i) == IF i = 0 THEN 0 ELSE OffsetOf(chunks, i - 1) + Len(chunks[i]) + 1

\* the units of the texts that [a-zA-Z0-9'\u00C0-\u00FF] matches
WordUnits == {"a", "H", "e", "l", "o", "w", "r", "d", "T", "h", "i", "s", "t"}

\* end of the longest run from position p (from 0) of units that are word
\* units (word = TRUE) or are not (word = FALSE)
RunEnd(s, p, word) ==
  MinOf({q \in p..Len(s) : q = Len(s) \/ (s[q + 1] \in WordUnits) # word})

\* the split without the capturing group: the matches are dropped
RECURSIVE SplitWordsUncaptured(_, _)
SplitWordsUncaptured(s, p) ==
  LET q == RunEnd(s, p, FALSE)
  IN IF q = Len(s) THEN <<SubSeq(s, p + 1, q)>>
     ELSE <<SubSeq(s, p + 1, q)>> \o SplitWordsUncaptured(s, RunEnd(s, q, TRUE))

\* text.split(/([a-zA-Z0-9'\u00C0-\u00FF]+)/) from position p: what precedes
\* the next match (empty if the match is at p), the captured match, and so
\* on; the rest of the text (empty after a final match) comes last
RECURSIVE SplitWords(_, _)
SplitWords(s, p) ==
  LET q == RunEnd(s, p, FALSE)
  IN IF q = Len(s) THEN <<SubSeq(s, p + 1, q)>>
     ELSE LET r == RunEnd(s, q, TRUE)
          IN <<SubSeq(s, p + 1, q), SubSeq(s, q + 1, r)>> \o SplitWords(s, r)

\* charCount of tokenData after i tokens
RECURSIVE CharCount(_, _)
CharCount(tokens, i) == IF i = 0 THEN 0 ELSE CharCount(tokens, i - 1) + Len(tokens[i])

\* the test as it would be with /^.+$/
IsWordNonEmpty(token) == token # <<>>

\* /^[a-zA-Z0-9'\u00C0-\u00FF]+$/.test(token)
IsWord(token) == token # <<>> /\ \A k \in 1..Len(token) : token[k] \in WordUnits

\* tokenData of InteractiveText, indices from 0 as in the code
tokenData(t) ==
  LET tokens == SplitWords(t, 0)
  IN [i \in 1..Len(tokens) |->
        [token |-> tokens[i], index |-> i - 1, start |-> CharCount(tokens, i - 1),
         end |-> CharCount(tokens, i), isWord |-> IsWord(tokens[i])]]

\* activeTokenIndex as it would be without the look-ahead
activeTokenIndexNoLookahead(data, spokenCharIndex) ==
  IF spokenCharIndex > -1
  THEN LET hits == {i \in 0..(Len(data) - 1) :
                      spokenCharIndex >= data[i + 1].start /\ spokenCharIndex < data[i + 1].end}
       IN IF hits = {} THEN -1 ELSE MinOf(hits)
  ELSE -1

\* activeTokenIndex of InteractiveText: the first token that contains
\* spokenCharIndex, moved to the next word token if it is not a word and a
\* word follows
activeTokenIndex(data, spokenCharIndex) ==
  IF spokenCharIndex > -1
  THEN LET hits == {i \in 0..(Len(data) - 1) :
                      spokenCharIndex >= data[i + 1].start /\ spokenCharIndex < data[i + 1].end}
           found == IF hits = {} THEN -1 ELSE MinOf(hits)
           ahead == IF found = -1 THEN {}
                    ELSE {j \in (found + 1)..(Len(data) - 1) : data[j + 1].isWord}
       IN IF found # -1 /\ ~data[found + 1].isWord /\ ahead # {} THEN MinOf(ahead) ELSE found
  ELSE -1

engine == <<prog, sess, env, obs>>

\* const sentences of chunkText, none if it returns before the split
Sentences(text) ==
  LET clean == Collapse(Trim(text))
  IN IF clean = <<>> THEN <<>> ELSE Split(clean)

\* chunkText(str, maxLenArg) is called
ChunkTextCall ==
  /\ ret' = [fn |-> "chunkText", sentences |-> Sentences(str),
             chunks |-> chunkText(str, maxLenArg)]
  /\ UNCHANGED <<impl, mobile, hasSpeech, str, maxLenArg, voiceList, ui, quiz, storage, engine>>

\* InteractiveText computes tokenData for the text str
TokenDataCall ==
  /\ ret' = [fn |-> "tokenData", tokens |-> tokenData(str)]
  /\ UNCHANGED <<impl, mobile, hasSpeech, str, maxLenArg, voiceList, ui, quiz, storage, engine>>

\* InteractiveText is rendered with the text str and spokenCharIndex = o
ActiveTokenCall(o) ==
  /\ ret' = [fn |-> "activeTokenIndex", spokenCharIndex |-> o,
             index |-> activeTokenIndex(tokenData(str), o)]
  /\ UNCHANGED <<impl, mobile, hasSpeech, str, maxLenArg, voiceList, ui, quiz, storage, engine>>

\* maxChunk of run()
maxChunk == IF mobile THEN MaxChunkMobile ELSE MaxChunkDesktop

\* utterance.onboundary of chunk i of a call speak(str, ...) whose earlier
\* chunks have ended, with e.charIndex = c; the caller stores the offset it
\* gets as spokenCharIndex of the InteractiveText that shows str
BoundaryCall(i, c) ==
  LET chunks == chunkText(Trim(str), maxChunk)
      offset == OffsetOf(chunks, i) + c
  IN /\ i < Len(chunks)
     /\ c < Len(chunks[i + 1])
     /\ ret' = [fn |-> "onBoundary", chunk |-> i, charIndex |-> c, offset |-> offset,
                index |-> activeTokenIndex(tokenData(str), offset)]
     /\ UNCHANGED <<impl, mobile, hasSpeech, str, maxLenArg, voiceList, ui, quiz, storage, engine>>

InitText ==
  /\ impl = "chunked"
  /\ mobile \in BOOLEAN
  /\ hasSpeech = TRUE
  /\ voicesLoaded = TRUE
  /\ \E input \in Inputs : str = input[1] /\ maxLenArg = input[2]
  /\ voiceList = <<>>
  /\ ret = [fn |-> "none"]
  /\ InitUi
  /\ InitEngine

NextText ==
  \/ ChunkTextCall
  \/ TokenDataCall
  \/ \E o \in -1..(MaxTextLen + 1) : ActiveTokenCall(o)
  \/ \E i \in 0..(MaxTextLen - 1), c \in 0..(MaxTextLen - 1) : BoundaryCall(i, c)

SpecText == InitText /\ [][NextText]_vars

\* ---------------------------------------------------------------- voice selection
MaxVoices == 2             \* length of the lists of voices

\* SpeechSynthesisVoice: name, lang and localService
VoiceNames == {"Google US English", "Google UK English Female", "Samantha"}
VoiceLangs == {"en-US", "en-GB", "fr-FR"}
Voices == [name : VoiceNames, lang : VoiceLangs, localService : BOOLEAN]
VoiceLists == UNION {[1..n -> Voices] : n \in 0..MaxVoices}

\* name.includes("Google"), lang.startsWith("en")
IncludesGoogle(name) == name \in {"Google US English", "Google UK English Female"}
StartsWithEn(lang) == lang \in {"en-US", "en-GB"}

\* the tests of pickVoice's priority list, in order, each as the set of the
\* voices that pass it
Priority1 == {v \in Voices : v.name = "Google US English"}
Priority2 == {v \in Voices : IncludesGoogle(v.name) /\ StartsWithEn(v.lang)}
Priority3 == {v \in Voices : v.lang = "en-US" /\ ~v.localService}
Priority4 == {v \in Voices : v.lang = "en-US"}
Priority5 == {v \in Voices : StartsWithEn(v.lang)}

\* voices.find(test): the position of the first voice that passes, 0 for
\* undefined
Find(voices, test) ==
  LET hits == {i \in 1..Len(voices) : voices[i] \in test}
  IN IF hits = {} THEN 0 ELSE MinOf(hits)

\* the first result that is a voice (for ... if (found) return found; and
\* a || b || c), 0 for null
FirstFound(results) ==
  LET hits == {k \in 1..Len(results) : results[k] # 0}
  IN IF hits = {} THEN 0 ELSE results[MinOf(hits)]

\* pickVoice of part_000, as the position of the voice in the list
pickVoice(voices) ==
  IF voices = <<>> THEN 0
  ELSE FirstFound(<<Find(voices, Priority1), Find(voices, Priority2), Find(voices, Priority3),
                    Find(voices, Priority4), Find(voices, Priority5)>>)

\* const voice of runSpeak in audio.ts and part_004
RunSpeakVoice(voices) ==
  FirstFound(<<Find(voices, Priority1), Find(voices, Priority2), Find(voices, Priority4)>>)

\* run() of part_000 picks the voice of its utterances
PickVoiceCall ==
  /\ impl = "chunked"
  /\ ret' = [fn |-> "voice", voice |-> pickVoice(voiceList)]
  /\ UNCHANGED <<impl, mobile, hasSpeech, str, maxLenArg, voiceList, ui, quiz, storage, engine>>

\* runSpeak() of audio.ts and part_004 picks the voice of its utterance
RunSpeakVoiceCall ==
  /\ impl \in Hybrid
  /\ ret' = [fn |-> "voice", voice |-> RunSpeakVoice(voiceList)]
  /\ UNCHANGED <<impl, mobile, hasSpeech, str, maxLenArg, voiceList, ui, quiz, storage, engine>>

InitVoices ==
  /\ impl \in Impls
  /\ mobile = FALSE
  /\ hasSpeech = TRUE
  /\ voiceList \in VoiceLists
  /\ voicesLoaded = (voiceList # <<>>)
  /\ str = <<>>
  /\ maxLenArg = MaxChunkDesktop
  /\ ret = [fn |-> "none"]
  /\ InitUi
  /\ InitEngine

NextVoices == PickVoiceCall \/ RunSpeakVoiceCall

SpecVoices == InitVoices /\ [][NextVoices]_vars

\* ---------------------------------------------------------------- tts as the components use it
MaxStartup == 2

\* what no handler of a component touches
outside == <<impl, mobile, hasSpeech, str, maxLenArg, voiceList, ret, storage, engine>>

\* tts.cancel(): the browser drops what it plays and what it has queued, the
\* audio element is paused; the timer of speak() is not cleared
CancelTts ==
  /\ utterances' = <<>>
  /\ UNCHANGED startup

\* tts.speak(text, onEnd, rate, onBoundary) with a text that is not empty:
\* cancel(), then the audio element on a mobile device, the 50 ms timer
\* otherwise
SpeakTts(onEnd) ==
  IF mobile
  THEN /\ utterances' = <<onEnd>>
       /\ UNCHANGED startup
  ELSE /\ Len(startup) < MaxStartup
       /\ utterances' = <<>>
       /\ startup' = Append(startup, onEnd)

\* the 50 ms timer of speak(): runSpeak hands the utterance to the browser
RunSpeakTimer ==
  /\ startup # <<>>
  /\ utterances' = Append(utterances, Head(startup))
  /\ startup' = Tail(startup)
  /\ act' = [task |-> "runSpeak", spoke |-> FALSE]
  /\ UNCHANGED <<isPlaying, playMode, isLooping, spokenIdx, timers, activeSentence, log, quiz, outside>>

\* ---------------------------------------------------------------- SentenceModule
\* what no handler of SentenceModule touches
besideSentence == <<activeSentence, log, quiz, outside>>

\* currentSent.text, shown by an InteractiveText
SentenceText == <<"a", " ", "a">>

\* the index InteractiveText highlights for the current sentence
ActiveToken == activeTokenIndex(tokenData(SentenceText), spokenIdx)

\* rate of handlePlay
Rate(mode) == IF mode = "slow" THEN 6 ELSE 10

\* what handlePlay of one render closes over when it calls tts.speak: its
\* playMode and isLooping (its isPlaying is false). onEnd and the timer
\* callback it sets keep that same handlePlay.
Closure(mode, loop) == [fn |-> "handlePlay", mode |-> mode, loop |-> loop]

\* the else branch of a handlePlay that closes over (mode, loop)
StartPlay(task, mode, loop) ==
  /\ isPlaying' = TRUE
  /\ spokenIdx' = 0
  /\ SpeakTts(Closure(mode, loop))
  /\ act' = [task |-> task, spoke |-> TRUE, rate |-> Rate(mode), wasPlaying |-> isPlaying]

\* the if branch of handlePlay: tts.cancel() and the reset
StopPlay(task) ==
  /\ CancelTts
  /\ isPlaying' = FALSE
  /\ spokenIdx' = -1
  /\ act' = [task |-> task, spoke |-> FALSE, rate |-> 0, wasPlaying |-> isPlaying]

\* the play button: handlePlay of the current render
ClickPlay ==
  /\ IF isPlaying THEN StopPlay("ClickPlay") ELSE StartPlay("ClickPlay", playMode, isLooping)
  /\ UNCHANGED <<playMode, isLooping, timers, besideSentence>>

\* the mode button, and the effect on [playMode] of the render that follows:
\* if (isPlaying) { tts.cancel(); handlePlay(); } with the handlePlay of
\* that render, whose isPlaying is true
ClickPlayMode ==
  /\ playMode' = IF playMode = "normal" THEN "slow" ELSE "normal"
  /\ IF isPlaying
     THEN StopPlay("ClickPlayMode")
     ELSE /\ act' = [task |-> "ClickPlayMode", spoke |-> FALSE, rate |-> 0, wasPlaying |-> FALSE]
          /\ UNCHANGED <<isPlaying, spokenIdx, startup, utterances>>
  /\ UNCHANGED <<isLooping, timers, besideSentence>>

\* the loop button
ClickLoop ==
  /\ isLooping' = ~isLooping
  /\ act' = [task |-> "ClickLoop", spoke |-> FALSE, rate |-> 0, wasPlaying |-> isPlaying]
  /\ UNCHANGED <<isPlaying, playMode, spokenIdx, startup, utterances, timers, besideSentence>>

\* the scroll observer's timer: another sentence is shown
ScrollTimer ==
  /\ StopPlay("ScrollTimer")
  /\ UNCHANGED <<playMode, isLooping, timers, besideSentence>>

\* onEnd of the utterance that the browser has finished
SentenceEnd ==
  /\ utterances # <<>>
  /\ isPlaying' = FALSE
  /\ spokenIdx' = -1
  /\ utterances' = Tail(utterances)
  /\ timers' = IF Head(utterances).loop THEN timers \cup {Head(utterances)} ELSE timers
  /\ act' = [task |-> "SentenceEnd", spoke |-> FALSE, rate |-> 0, wasPlaying |-> isPlaying]
  /\ UNCHANGED <<playMode, isLooping, startup, besideSentence>>

\* onBoundary of the utterance that the browser speaks; the audio element
\* of the mobile branch reports none
SentenceBoundary(charIndex) ==
  /\ utterances # <<>>
  /\ ~mobile
  /\ spokenIdx' = charIndex
  /\ act' = [task |-> "SentenceBoundary", spoke |-> FALSE, rate |-> 0, wasPlaying |-> isPlaying]
  /\ UNCHANGED <<isPlaying, playMode, isLooping, startup, utterances, timers, besideSentence>>

\* the 500 ms timer set by onEnd fires: handlePlay of the render that
\* started the call that ended
LoopTimer(c) ==
  /\ c \in timers
  /\ timers' = timers \ {c}
  /\ StartPlay("LoopTimer", c.mode, c.loop)
  /\ UNCHANGED <<playMode, isLooping, besideSentence>>

InitSentence ==
  /\ impl = "edge"
  /\ mobile \in BOOLEAN
  /\ hasSpeech = TRUE
  /\ voicesLoaded = TRUE
  /\ str = <<>>
  /\ maxLenArg = MaxChunkDesktop
  /\ voiceList = <<>>
  /\ ret = [fn |-> "none"]
  /\ InitUi
  /\ InitEngine

NextSentence ==
  \/ ClickPlay
  \/ ClickPlayMode
  \/ ClickLoop
  \/ ScrollTimer
  \/ RunSpeakTimer
  \/ SentenceEnd
  \/ \E charIndex \in 0..(Len(SentenceText) - 1) : SentenceBoundary(charIndex)
  \/ \E c \in timers : LoopTimer(c)

SpecSentence == InitSentence /\ [][NextSentence]_vars

\* ---------------------------------------------------------------- TextModule
PlayListLen == 4

\* what no handler of TextModule touches
besideText == <<playMode, isLooping, timers, quiz, outside>>

\* the indices of flatPlayList
PlayList == 0..(PlayListLen - 1)

\* findIndex of togglePlay: the place of activeSentence in flatPlayList, 0
\* if there is none
StartIndex == IF activeSentence = NoSentence THEN 0 ELSE activeSentence

\* the play button
togglePlay ==
  /\ IF isPlaying
     THEN /\ CancelTts
          /\ isPlaying' = FALSE
          /\ spokenIdx' = -1
          /\ log' = <<>>
          /\ act' = [task |-> "togglePlay", spoke |-> FALSE]
     ELSE /\ isPlaying' = TRUE
          /\ spokenIdx' = 0
          /\ SpeakTts([fn |-> "playNext", index |-> StartIndex])
          /\ log' = <<[index |-> StartIndex, from |-> "togglePlay"]>>
          /\ act' = [task |-> "togglePlay", spoke |-> TRUE]
  /\ UNCHANGED <<activeSentence, besideText>>

\* a click on sentence index of the text
handleSentenceClick(index) ==
  /\ isPlaying' = FALSE
  /\ activeSentence' = index
  /\ spokenIdx' = 0
  /\ SpeakTts([fn |-> "sentenceEnd"])
  /\ log' = <<[index |-> index, from |-> "handleSentenceClick"]>>
  /\ act' = [task |-> "handleSentenceClick", spoke |-> TRUE]
  /\ UNCHANGED besideText

\* a click on a word of a sentence
onWordClick ==
  /\ CancelTts
  /\ isPlaying' = FALSE
  /\ log' = <<>>
  /\ act' = [task |-> "onWordClick", spoke |-> FALSE]
  /\ UNCHANGED <<spokenIdx, activeSentence, besideText>>

\* the utterance that the browser has finished was given () =>
\* playNext(currentIndex) as its onEnd
playNext ==
  /\ utterances # <<>>
  /\ Head(utterances).fn = "playNext"
  /\ LET currentIndex == Head(utterances).index
         nextIdx == currentIndex + 1
     IN IF currentIndex >= PlayListLen - 1
        THEN /\ isPlaying' = FALSE
             /\ activeSentence' = NoSentence
             /\ spokenIdx' = -1
             /\ utterances' = Tail(utterances)
             /\ act' = [task |-> "playNext", spoke |-> FALSE]
             /\ UNCHANGED <<startup, log>>
        ELSE /\ activeSentence' = nextIdx
             /\ spokenIdx' = 0
             /\ SpeakTts([fn |-> "playNext", index |-> nextIdx])
             /\ log' = Append(log, [index |-> nextIdx, from |-> "playNext"])
             /\ act' = [task |-> "playNext", spoke |-> TRUE]
             /\ UNCHANGED isPlaying
  /\ UNCHANGED besideText

\* the utterance that the browser has finished was given the onEnd of
\* handleSentenceClick
SentenceClickEnd ==
  /\ utterances # <<>>
  /\ Head(utterances).fn = "sentenceEnd"
  /\ isPlaying' = FALSE
  /\ spokenIdx' = -1
  /\ utterances' = Tail(utterances)
  /\ act' = [task |-> "sentenceEnd", spoke |-> FALSE]
  /\ UNCHANGED <<startup, activeSentence, log, besideText>>

\* onBoundary of the utterance that the browser speaks
TextBoundary(charIndex) ==
  /\ utterances # <<>>
  /\ ~mobile
  /\ spokenIdx' = charIndex
  /\ act' = [task |-> "onBoundary", spoke |-> FALSE]
  /\ UNCHANGED <<isPlaying, startup, utterances, activeSentence, log, besideText>>

NextTextModule ==
  \/ togglePlay
  \/ \E index \in PlayList : handleSentenceClick(index)
  \/ onWordClick
  \/ RunSpeakTimer
  \/ playNext
  \/ SentenceClickEnd
  \/ \E charIndex \in 0..(Len(SentenceText) - 1) : TextBoundary(charIndex)

SpecTextModule == InitSentence /\ [][NextTextModule]_vars

\* ---------------------------------------------------------------- QuizModal
QuizLen == 2

\* what no handler of QuizModal touches
besideQuiz == <<isPlaying, playMode, isLooping, spokenIdx, activeSentence, log, outside>>

QuestionTypes == {"listening", "reading"}
Options == 0..1

\* what quizService.generateQuiz resolves to: no question, or QuizLen of them
Quizzes == {<<>>} \cup [1..QuizLen -> [type : QuestionTypes, answer : Options]]

\* the effect on [currentIndex, loading, quizFinished, questions] of a render
\* with these values: the timers pending after it
AutoPlay(qs, index, isLoading, finished) ==
  IF Len(qs) > 0 /\ ~isLoading /\ ~finished /\ index < Len(qs)
     /\ qs[index + 1].type = "listening"
  THEN timers \cup {[fn |-> "autoPlay", index |-> index]}
  ELSE timers

\* generateQuiz resolves: setQuestions or setError, setLoading(false)
QuizLoaded(data) ==
  /\ mounted
  /\ loading
  /\ questions' = data
  /\ loading' = FALSE
  /\ timers' = AutoPlay(data, quizIndex, FALSE, quizFinished)
  /\ act' = [task |-> "initQuiz", spoke |-> FALSE]
  /\ UNCHANGED <<mounted, quizIndex, quizFinished, selectedOption, isAnswered, score,
                 startup, utterances, besideQuiz>>

\* a click on option idx of the current question
handleSelect(option) ==
  /\ mounted /\ ~loading /\ ~quizFinished /\ Len(questions) > 0
  /\ ~isAnswered
  /\ selectedOption' = option
  /\ isAnswered' = TRUE
  /\ score' = IF option = questions[quizIndex + 1].answer THEN score + 1 ELSE score
  /\ act' = [task |-> "handleSelect", spoke |-> FALSE]
  /\ UNCHANGED <<mounted, loading, questions, quizIndex, quizFinished, timers,
                 startup, utterances, besideQuiz>>

\* the button of the footer, shown once the question is answered
nextQuestion ==
  /\ mounted /\ ~loading /\ ~quizFinished /\ Len(questions) > 0
  /\ isAnswered
  /\ IF quizIndex < Len(questions) - 1
     THEN /\ quizIndex' = quizIndex + 1
          /\ isAnswered' = FALSE
          /\ selectedOption' = NoOption
          /\ timers' = AutoPlay(questions, quizIndex + 1, loading, quizFinished)
          /\ UNCHANGED quizFinished
     ELSE /\ quizFinished' = TRUE
          /\ UNCHANGED <<quizIndex, isAnswered, selectedOption, timers>>
  /\ act' = [task |-> "nextQuestion", spoke |-> FALSE]
  /\ UNCHANGED <<mounted, loading, questions, score, startup, utterances, besideQuiz>>

\* the play button of a listening question
ClickListen ==
  /\ mounted /\ ~loading /\ ~quizFinished /\ Len(questions) > 0
  /\ questions[quizIndex + 1].type = "listening"
  /\ SpeakTts([fn |-> "query", index |-> quizIndex])
  /\ act' = [task |-> "ClickListen", spoke |-> TRUE]
  /\ UNCHANGED <<quiz, timers, besideQuiz>>

\* the 600 ms timer of the auto-play effect
AutoPlayTimer(c) ==
  /\ c \in timers
  /\ timers' = timers \ {c}
  /\ SpeakTts([fn |-> "query", index |-> c.index])
  /\ act' = [task |-> "autoPlay", spoke |-> TRUE]
  /\ UNCHANGED <<quiz, besideQuiz>>

\* onClose: the parent unmounts the modal, the cleanup of the first effect runs
Unmount ==
  /\ mounted
  /\ mounted' = FALSE
  /\ CancelTts
  /\ act' = [task |-> "unmount", spoke |-> FALSE]
  /\ UNCHANGED <<loading, questions, quizIndex, quizFinished, selectedOption, isAnswered,
                 score, timers, besideQuiz>>

\* the browser has finished an utterance; QuizModal gives no onEnd
QueryEnd ==
  /\ utterances # <<>>
  /\ utterances' = Tail(utterances)
  /\ act' = [task |-> "queryEnd", spoke |-> FALSE]
  /\ UNCHANGED <<quiz, startup, timers, besideQuiz>>

NextQuiz ==
  \/ \E data \in Quizzes : QuizLoaded(data)
  \/ \E option \in Options : handleSelect(option)
  \/ nextQuestion
  \/ ClickListen
  \/ \E c \in timers : AutoPlayTimer(c)
  \/ Unmount
  \/ RunSpeakTimer
  \/ QueryEnd

SpecQuiz == InitSentence /\ [][NextQuiz]_vars

\* ---------------------------------------------------------------- db
MaxUnits == 2
MaxItems == 2

UnitIds == 1..MaxUnits
ItemIds == 1..MaxItems

\* what db does not touch
besideDb == <<impl, mobile, hasSpeech, str, maxLenArg, voiceList, ui, quiz, engine>>

\* Array.prototype.filter, keeping the items of a unit
OfUnit(items, unitId) == SelectSeq(items, LAMBDA x : x.unitId = unitId)

\* Array.prototype.filter, dropping the items of a unit
NotOfUnit(items, unitId) == SelectSeq(items, LAMBDA x : x.unitId # unitId)

\* Array.prototype.filter, dropping the entry with an id
NotId(items, id) == SelectSeq(items, LAMBDA x : x.id # id)

Ids(items) == {items[i].id : i \in 1..Len(items)}

getWords(unitId) == OfUnit(dbWords, unitId)
getSentences(unitId) == OfUnit(dbSentences, unitId)
getTexts(unitId) == OfUnit(dbTexts, unitId)

\* the storage as a call of db finds it
Before == [units |-> dbUnits, words |-> dbWords, sentences |-> dbSentences, texts |-> dbTexts]

\* crypto.randomUUID() gives an id no unit has
addUnit(id) ==
  /\ id \notin Ids(dbUnits)
  /\ dbUnits' = Append(dbUnits, [id |-> id])
  /\ ret' = [fn |-> "addUnit", id |-> id, before |-> Before]
  /\ UNCHANGED <<dbWords, dbSentences, dbTexts, besideDb>>

\* mutant of deleteUnit: the texts of the unit are kept
deleteUnitKeepsTexts(id) ==
  /\ dbUnits' = NotId(dbUnits, id)
  /\ dbWords' = NotOfUnit(dbWords, id)
  /\ dbSentences' = NotOfUnit(dbSentences, id)
  /\ dbTexts' = dbTexts
  /\ ret' = [fn |-> "deleteUnit", id |-> id, before |-> Before]
  /\ UNCHANGED besideDb

deleteUnit(id) ==
  /\ dbUnits' = NotId(dbUnits, id)
  /\ dbWords' = NotOfUnit(dbWords, id)
  /\ dbSentences' = NotOfUnit(dbSentences, id)
  /\ dbTexts' = NotOfUnit(dbTexts, id)
  /\ ret' = [fn |-> "deleteUnit", id |-> id, before |-> Before]
  /\ UNCHANGED besideDb

\* the callers give a new word, sentence or text an id of its own
addWord(word) ==
  /\ word.id \notin Ids(dbWords)
  /\ dbWords' = Append(dbWords, word)
  /\ ret' = [fn |-> "addWord", id |-> word.id, before |-> Before]
  /\ UNCHANGED <<dbUnits, dbSentences, dbTexts, besideDb>>

addSentence(sentence) ==
  /\ sentence.id \notin Ids(dbSentences)
  /\ dbSentences' = Append(dbSentences, sentence)
  /\ ret' = [fn |-> "addSentence", id |-> sentence.id, before |-> Before]
  /\ UNCHANGED <<dbUnits, dbWords, dbTexts, besideDb>>

addText(text) ==
  /\ text.id \notin Ids(dbTexts)
  /\ dbTexts' = Append(dbTexts, text)
  /\ ret' = [fn |-> "addText", id |-> text.id, before |-> Before]
  /\ UNCHANGED <<dbUnits, dbWords, dbSentences, besideDb>>

deleteWord(id) ==
  /\ dbWords' = NotId(dbWords, id)
  /\ ret' = [fn |-> "deleteWord", id |-> id, before |-> Before]
  /\ UNCHANGED <<dbUnits, dbSentences, dbTexts, besideDb>>

deleteSentence(id) ==
  /\ dbSentences' = NotId(dbSentences, id)
  /\ ret' = [fn |-> "deleteSentence", id |-> id, before |-> Before]
  /\ UNCHANGED <<dbUnits, dbWords, dbTexts, besideDb>>

deleteText(id) ==
  /\ dbTexts' = NotId(dbTexts, id)
  /\ ret' = [fn |-> "deleteText", id |-> id, before |-> Before]
  /\ UNCHANGED <<dbUnits, dbWords, dbSentences, besideDb>>

Items == [id : ItemIds, unitId : UnitIds]

NextDb ==
  \/ \E id \in UnitIds : addUnit(id)
  \/ \E id \in UnitIds : deleteUnit(id)
  \/ \E word \in Items : addWord(word)
  \/ \E sentence \in Items : addSentence(sentence)
  \/ \E text \in Items : addText(text)
  \/ \E id \in ItemIds : deleteWord(id)
  \/ \E id \in ItemIds : deleteSentence(id)
  \/ \E id \in ItemIds : deleteText(id)

\* localStorage holds none of the four keys
InitDb ==
  /\ InitSentence
  /\ mobile = FALSE

SpecDb == InitDb /\ [][NextDb]_vars

\* ---------------------------------------------------------------- claims
\* what the task that led here let the caller or the backend see of call s
Saw(s, emits) == last.call = s /\ last.emit \in emits

\* something of call s is still bound to run without any further call and
\* without the voice list ever loading: a timer, a notified listener, the
\* poll of waitForVoices, an utterance the engine holds, a playing audio
Pending(s) ==
  \/ phase[s] \in {"sleep", "notified", "gap"}
  \/ phase[s] = "voices" /\ poll[s]
  \/ \E i \in 1..Len(queue) : queue[i][1] = s
  \/ audio[s] = "playing"

\* the engine holds no utterance handle, no audio handle and no running
\* watchdog
NoHandles ==
  /\ activeSpeechUtterance = NoUtterance
  /\ activeMobileAudio = 0
  /\ keepAliveTimer \notin intervals

\* C1: when speak(B) is called before any callback or startup timer of
\* speak(A) has run, nothing of A is seen afterwards: onEndA and onBoundaryA
\* are never invoked and no utterance or audio of A is handed to the backend.
C1_PreemptedBeforeStartStaysSilent ==
  \A s \in Sessions : race[s] => ~Saw(s, {"end", "boundary", "handed"})

\* C2: once cancel() has returned, no onBoundary and no onEnd of a call it
\* cancelled is ever invoked, whatever events, timers and calls follow.
C2_CancelledStaysSilent ==
  \A s \in Sessions : status[s] = "cancelled" => ~Saw(s, {"end", "boundary"})

\* C3: in every reachable state the local engine holds at most one utterance
\* that was handed to it and has not ended, and at most one audio is playing.
C3_OneBackendResource ==
  /\ Len(queue) <= 1
  /\ Cardinality({a \in Sessions : audio[a] = "playing"}) <= 1

\* C4: a speak() call that was neither cancelled nor pre-empted gets its
\* onEnd: in every state its onEnd has been invoked or something of it is
\* still bound to run, whatever the backend did (ended, failed, threw,
\* rejected play(), never listed a voice, or is absent).
C4_LiveCallEndsOrProceeds ==
  \A s \in Sessions : status[s] = "live" => onEndCount[s] >= 1 \/ Pending(s)

\* the state a handler of a genuine backend error leaves, and onEnd counts
C5_ErrorState ==
  /\ \A s \in Sessions : onEndCount[s] <= 1
  /\ last.task \in {"UtteranceError", "AudioError"} =>
       /\ last.emit = "end"
       /\ onEndCount[last.call] = 1
       /\ phase[last.call] = "over"
       /\ NoHandles

\* a step from a state where the flow of a call is over
C5_OverStaysOver ==
  \A s \in Sessions :
    phase[s] = "over" => phase'[s] = "over" /\ ~(last'.call = s /\ last'.emit = "handed")

\* C5: onEnd is invoked at most once per speak() call; and when the backend
\* reports an error that is not self-inflicted, onEnd has then been invoked
\* exactly once for that call, by that handler, the call's flow is over, the
\* handles are released, and no chunk of the call is handed over afterwards.
C5_OnEndOnceAndErrorEnds == []C5_ErrorState /\ [][C5_OverStaysOver]_vars

C5_Witness ==
  /\ last.task = "UtteranceError"
  /\ impl = "chunked"
  /\ onEndCount[last.call] = 1
  /\ status[last.call] = "live"

\* a cancel() of the chunked engine while chunk k >= 1 of call s plays
C6_CancelStep ==
  (/\ impl = "chunked"
   /\ last'.task = "cancel"
   /\ queue # <<>>
   /\ Head(queue)[2] >= 1)
  => LET s == Head(queue)[1]
     IN /\ last'.stops = 1
        /\ queue' = <<>>
        /\ NoHandles'
        /\ ttsAborted'
        /\ phase'[s] = "over"
        /\ onEndCount'[s] = 0

\* a step from a state where a cancelled call's flow is over
C6_Afterwards ==
  \A s \in Sessions :
    (impl = "chunked" /\ status[s] = "cancelled" /\ phase[s] = "over")
    => /\ onEndCount'[s] = onEndCount[s]
       /\ ~(last'.call = s /\ last'.emit \in {"end", "handed"})

\* C6: in the chunked engine, cancel() called while chunk k >= 1 of a call
\* is playing stops the backend exactly once, leaves the engine idle when it
\* returns, with onEnd of the call not invoked, and from then on onEnd of the
\* call is never invoked and no further chunk of it is handed over.
C6_CancelMidChunk == [][C6_CancelStep /\ C6_Afterwards]_vars

C6_Witness ==
  /\ impl = "chunked"
  /\ last.task = "cancel"
  /\ last.stops = 1
  /\ stopped # <<>>
  /\ LET u == stopped[Len(stopped)]
     IN u[2] >= 1 /\ status[u[1]] = "cancelled" /\ onEndCount[u[1]] = 0

\* C7: every speak(), whatever its text, first stops what is playing and
\* invalidates the previous call: when it returns the backend holds nothing
\* of an earlier call, and onEnd of a pre-empted call is never invoked.
C7_SpeakResetsFirst ==
  /\ last.task = "speak" =>
       /\ \A i \in 1..Len(queue) : queue[i][1] = last.call
       /\ \A a \in Sessions : audio[a] = "playing" => a = last.call
  /\ \A s \in Sessions : status[s] = "preempted" => ~Saw(s, {"end"})

\* C8: speak() with an empty or a white-space-only text has invoked onEnd
\* exactly once when it returns and has created no utterance and no audio.
C8_BlankTextEndsAtOnce ==
  \A s \in Sessions :
    (status[s] # "none" /\ textArg[s] \in {"empty", "blank"})
    => onEndCount[s] = 1 /\ phase[s] = "returned" /\ audio[s] = "none"

\* C9: an error the backend reports because of the engine's own cancel or
\* reset (an interrupted utterance, an audio whose source was emptied) does
\* not reach the caller: its handler invokes no onEnd.
C9_SelfInflictedSwallowed ==
  last.task \in {"UtteranceInterrupted", "AudioUnloaded"} => last.emit = "nothing"

LocalIdle ==
  /\ queue = <<>>
  /\ \A s \in Sessions : phase[s] \in {"none", "returned", "over", "audio"}

\* C11: the keep-alive watchdog runs only while a session is speaking: in
\* every state where the engine is idle (after completion, after an error,
\* after cancel(), also when they come before the first chunk) no watchdog
\* interval is running.
C11_NoWatchdogWhenIdle == LocalIdle => intervals = {}

\* the offset of chunk i of call s as run() accumulates it
ChunkStart(s, i) == OffsetOf(Chunks(s), i)

\* while chunk i of a call is with the engine or has just ended, the end
\* events counted so far are exactly those of the chunks before it
C12_EndsCounted ==
  \A s \in Sessions :
    impl = "chunked" =>
      /\ phase[s] = "chunk" => globalCharOffset[s] = ChunkStart(s, idx[s])
      /\ phase[s] = "gap" => globalCharOffset[s] = ChunkStart(s, idx[s] + 1)

\* a step that hands a chunk of call s to the engine hands chunk 0 of a call
\* that has handed none, or the chunk after the one whose end event came; a
\* step in which the flow of s finds no chunk left and invokes onEnd follows
\* the end event of the last chunk
C12_InOrder ==
  \A s \in Sessions :
    /\ (impl = "chunked" /\ last'.call = s /\ last'.emit = "handed") =>
         \/ phase[s] \in {"sleep", "voices", "notified"} /\ idx'[s] = 0
         \/ phase[s] = "gap" /\ idx'[s] = idx[s] + 1 /\ idx'[s] < Len(Chunks(s))
    /\ (GapTimer(s, FALSE) /\ last'.emit = "end") =>
         /\ idx[s] = Len(Chunks(s)) - 1
         /\ globalCharOffset[s] = ChunkStart(s, Len(Chunks(s)))

\* C12: within one speak() call of the chunked engine the chunks are played
\* strictly in sequence: chunk i+1 is handed to the engine only after the
\* end event of chunk i, each chunk once, and the flow invokes onEnd for
\* having no chunk left only after the end event of the last chunk.
C12_ChunksInSequence == []C12_EndsCounted /\ [][C12_InOrder]_vars

C12_Witness ==
  /\ impl = "chunked"
  /\ last.task = "GapTimer"
  /\ last.emit = "end"
  /\ status[last.call] = "live"
  /\ textArg[last.call] = "long"

\* number of units that are not white space in the first i chunks
RECURSIVE Spoken(_, _)
Spoken(chunks, i) ==
  IF i = 0 THEN 0 ELSE Spoken(chunks, i - 1) + Cardinality(NonBlank(chunks[i]))

\* where chunk i (from 0) starts in the text t it was cut from: chunkText
\* keeps every unit that is not white space, in order, so the first such unit
\* of the chunk is the unit of t with as many such units before it; a chunk
\* cut at a space starts one unit earlier
ChunkOrigin(t, chunks, i) ==
  LET before == Spoken(chunks, i)
      first == CHOOSE p \in NonBlank(t) : Cardinality({q \in NonBlank(t) : q < p}) = before
      lead == IF chunks[i + 1][1] \in WS THEN 1 ELSE 0
  IN first - 1 - lead

\* C13: every offset forwarded to onBoundary is the offset, in the full text
\* given to speak(), at which the current chunk starts, plus the offset the
\* engine reported within the chunk.
C13_OffsetInFullText ==
  ret.fn = "onBoundary" =>
    ret.offset = ChunkOrigin(str, chunkText(Trim(str), maxChunk), ret.chunk) + ret.charIndex

\* the unit the engine is speaking at the boundary just reported
SpokenUnit == chunkText(Trim(str), maxChunk)[ret.chunk + 1][ret.charIndex + 1]

\* a boundary reported on a unit of a word makes a word token the active one
C14_WordBecomesActive ==
  (ret.fn = "onBoundary" /\ SpokenUnit \in WordUnits) =>
    /\ ret.index # -1
    /\ tokenData(str)[ret.index + 1].isWord

\* from one boundary to a later one of the same session (a later chunk, or
\* the same chunk and an offset that is not smaller) the active token does
\* not move backward
C14_NeverBackward ==
  (/\ ret.fn = "onBoundary"
   /\ ret'.fn = "onBoundary"
   /\ \/ ret.chunk < ret'.chunk
      \/ ret.chunk = ret'.chunk /\ ret.charIndex <= ret'.charIndex)
  => ret.index <= ret'.index

\* C14: in one session whose engine reports non-decreasing boundary offsets
\* the active token never moves backward and each spoken word becomes the
\* active token, in text order.
C14_HighlightFollowsSpeech == []C14_WordBecomesActive /\ [][C14_NeverBackward]_vars

\* C15: for every text and every maxLen >= 1 every chunk that chunkText
\* returns has at most maxLen units.
C15_ChunksFit ==
  ret.fn = "chunkText" => \A i \in 1..Len(ret.chunks) : Len(ret.chunks[i]) <= maxLenArg

\* chunkText has returned the pieces of a sentence it had to split hard
C15_Witness ==
  /\ ret.fn = "chunkText"
  /\ Len(ret.chunks) >= 2
  /\ \E i \in 1..Len(Split(Collapse(Trim(str)))) :
        Len(Split(Collapse(Trim(str)))[i]) > maxLenArg

\* the chunks lo..hi joined in order with a single space (by halves)
RECURSIVE JoinRange(_, _, _)
JoinRange(chunks, lo, hi) ==
  IF lo > hi THEN <<>>
  ELSE IF lo = hi THEN chunks[lo]
  ELSE LET mid == (lo + hi) \div 2
       IN JoinRange(chunks, lo, mid) \o <<" ">> \o JoinRange(chunks, mid + 1, hi)

Join(chunks) == JoinRange(chunks, 1, Len(chunks))

\* C16: for every text and maxLen the chunks of chunkText joined in order
\* with a single space are the text trimmed and with every run of white space
\* collapsed to one space: no unit is added, dropped or reordered.
C16_JoinReproducesText == ret.fn = "chunkText" => Join(ret.chunks) = Collapse(Trim(str))

\* the texts of the first i tokens, concatenated in order
RECURSIVE Concat(_, _)
Concat(data, i) == IF i = 0 THEN <<>> ELSE Concat(data, i - 1) \o data[i].token

\* C17: for every text the token texts concatenated in order are the text,
\* the first token starts at 0, the last ends at the length of the text,
\* each token starts where the one before it ends, and end - start is the
\* length of the token's text.
C17_TokensPartitionText ==
  ret.fn = "tokenData" =>
    LET data == ret.tokens
    IN /\ Concat(data, Len(data)) = str
       /\ data[1].start = 0
       /\ data[Len(data)].end = Len(str)
       /\ \A i \in 1..(Len(data) - 1) : data[i].end = data[i + 1].start
       /\ \A i \in 1..Len(data) : data[i].end - data[i].start = Len(data[i].token)

\* a text of several words with more than one unit between two of them
C17_Witness ==
  /\ ret.fn = "tokenData"
  /\ Len(ret.tokens) >= 5
  /\ \E i \in 1..Len(ret.tokens) : ~ret.tokens[i].isWord /\ Len(ret.tokens[i].token) >= 2

\* C18: the tokenizer never produces an empty token: every token of a text
\* that is not empty has a text that is not empty, and the empty text has no
\* tokens.
C18_NoEmptyToken ==
  ret.fn = "tokenData" =>
    /\ str = <<>> => ret.tokens = <<>>
    /\ str # <<>> => \A i \in 1..Len(ret.tokens) : ret.tokens[i].token # <<>>

\* C19: for every text and every offset the active token index is -1 or the
\* index of a word token, also when the offset is on punctuation or white
\* space after the last word.
C19_ActiveTokenIsWord ==
  ret.fn = "activeTokenIndex" =>
    \/ ret.index = -1
    \/ tokenData(str)[ret.index + 1].isWord

\* C20: for one text and two offsets a < b, offsets at or beyond the end of
\* the text included, the index resolved for a is at most the index resolved
\* for b.
C20_IndexMonotone ==
  ret.fn = "activeTokenIndex" =>
    \A b \in (ret.spokenCharIndex + 1)..(Len(str) + 1) :
      ret.index <= activeTokenIndex(tokenData(str), b)

\* the rank of the first test of the priority list that voice v passes, 6 if
\* it passes none
Tier(v) ==
  CASE v.name = "Google US English" -> 1
    [] IncludesGoogle(v.name) /\ StartsWithEn(v.lang) -> 2
    [] v.lang = "en-US" /\ ~v.localService -> 3
    [] v.lang = "en-US" -> 4
    [] StartsWithEn(v.lang) -> 5
    [] OTHER -> 6

\* the voice the priority list selects: the first voice of the best tier
\* that any voice of the list reaches, 0 if no voice reaches a tier
Preferred(voices) ==
  LET matching == {i \in 1..Len(voices) : Tier(voices[i]) <= 5}
      best == MinOf({Tier(voices[i]) : i \in matching})
  IN IF matching = {} THEN 0 ELSE MinOf({i \in matching : Tier(voices[i]) = best})

\* C21: the voice selected is the first voice that passes the highest-ranked
\* test any voice passes, among (1) name 'Google US English', (2) name with
\* 'Google' and lang starting 'en', (3) lang 'en-US' and not local, (4) lang
\* 'en-US', (5) lang starting 'en'; it is null exactly when no voice passes any.
C21_FirstMatchByPriority == ret.fn = "voice" => ret.voice = Preferred(voiceList)

\* C22: after cancel() has returned and with no speak() after it, nothing of
\* the cancelled call is handed to the backend: no pending timer of the call
\* (startup delay, wait for voices, inter-chunk delay) starts an utterance or
\* an audio.
C22_NoSpeakAfterCancel ==
  \A s \in Sessions : (status[s] = "cancelled" /\ nCalls = s) => ~Saw(s, {"handed"})

\* C23: in the chunked engine a call that was cancelled or pre-empted is not
\* revived by a later speak(): once a later call with a text to speak
\* exists, no chunk of the earlier call is handed to the backend when one of
\* its pending timers (startup delay, wait for voices, inter-chunk delay)
\* fires.
C23_NotRevivedByLaterSpeak ==
  \A s \in Sessions :
    (/\ impl = "chunked"
     /\ status[s] \in {"cancelled", "preempted"}
     /\ \E b \in Sessions : b > s /\ b <= nCalls /\ textArg[b] = "long")
    => ~Saw(s, {"handed"})

\* C24: whenever an audio element is playing, the active-audio handle refers
\* to it, so that cancel() pauses it: a late ended or error event of an
\* earlier element never clears or replaces the handle of the playing one.
C24_HandleIsPlayingAudio ==
  \A a \in Sessions : audio[a] = "playing" => activeMobileAudio = a

\* C25: at most one keep-alive interval is live at any time, across any
\* sequence of speak() and cancel() calls.
C25_OneKeepAlive == Cardinality(intervals) <= 1

\* the poll interval keeps ticking and its timeout elapses; the listeners of
\* a voiceschanged event that was dispatched run
FairWait ==
  \A s \in Sessions :
    /\ WF_vars(\E timedOut \in BOOLEAN, throws \in BOOLEAN : PollResolve(s, timedOut, throws))
    /\ WF_vars(PollStop(s))
    /\ WF_vars(\E throws \in BOOLEAN : VoicesListener(s, throws))

SpecWait == Spec /\ FairWait

\* run() waits for voices only if the list was empty when it asked, and
\* while it waits its poll interval is live
C26_WaitsOnlyWithoutVoices ==
  \A s \in Sessions :
    /\ (last.task = "SleepDone" /\ last.call = s /\ phase[s] = "voices") => ~voicesLoaded
    /\ (impl = "chunked" /\ phase[s] = "voices") => poll[s]

\* the wait of a call is resolved once: by a tick of its poll or by its
\* listener, and then never again
C26_ResolvedOnce ==
  \A s \in Sessions :
    (impl = "chunked" /\ phase[s] \notin {"voices", "notified"})
    => phase'[s] \notin {"voices", "notified"} \/ (phase[s] = "sleep" /\ phase'[s] = "voices")

\* C26: waitForVoices always terminates: it resolves at once if voices are
\* available, otherwise once, on the voiceschanged event, on a poll that
\* finds voices, or on the timeout; after that the poll interval is
\* eventually cleared and the listener removed.
C26_WaitForVoicesTerminates ==
  /\ []C26_WaitsOnlyWithoutVoices
  /\ [][C26_ResolvedOnce]_vars
  /\ \A s \in Sessions :
       /\ (impl = "chunked" /\ phase[s] = "voices") ~> (phase[s] \notin {"voices", "notified"})
       /\ poll[s] ~> ~poll[s]

\* the wait of a call has ended by the timeout, with no voice listed
C26_Witness ==
  /\ last.task = "PollResolve"
  /\ ~voicesLoaded
  /\ ~poll[last.call]
  /\ phase[last.call] = "chunk"

\* C27: a negative offset resolves to -1; an offset o inside the text for
\* which some word token ends after o resolves to the smallest index i with
\* tokens[i].isWord and tokens[i].end > o: the token that contains o if it is
\* a word, otherwise the next word token.
C27_ResolvesToNextWord ==
  ret.fn = "activeTokenIndex" =>
    LET o == ret.spokenCharIndex
        data == tokenData(str)
        later == {i \in 0..(Len(data) - 1) : data[i + 1].isWord /\ data[i + 1].end > o}
    IN /\ o < 0 => ret.index = -1
       /\ (o >= 0 /\ o < Len(str) /\ later # {}) => ret.index = MinOf(later)

\* an offset on a unit that is not of a word has resolved to the word after it
C27_Witness ==
  /\ ret.fn = "activeTokenIndex"
  /\ ret.spokenCharIndex >= 0
  /\ ret.spokenCharIndex < Len(str)
  /\ str[ret.spokenCharIndex + 1] \notin WordUnits
  /\ ret.index # -1
  /\ tokenData(str)[ret.index + 1].isWord

\* C28: every token's isWord flag tells whether the first unit of the token
\* is a word unit, and every token consists of word units only or of other
\* units only.
C28_IsWordByFirstUnit ==
  ret.fn = "tokenData" =>
    \A i \in 1..Len(ret.tokens) :
      LET token == ret.tokens[i].token
      IN /\ ret.tokens[i].isWord = (token # <<>> /\ token[1] \in WordUnits)
         /\ \/ \A k \in 1..Len(token) : token[k] \in WordUnits
            \/ \A k \in 1..Len(token) : token[k] \notin WordUnits

\* a text with a word of several units and a token of other units
C28_Witness ==
  /\ ret.fn = "tokenData"
  /\ \E i \in 1..Len(ret.tokens) : ret.tokens[i].isWord /\ Len(ret.tokens[i].token) >= 2
  /\ \E i \in 1..Len(ret.tokens) : ~ret.tokens[i].isWord /\ Len(ret.tokens[i].token) >= 2

\* for every chunk the loop of chunkText pushes, in order, whether it is a
\* piece of a hard split
RECURSIVE PackHard(_, _, _, _)
PackHard(sentences, buffer, hard, maxLen) ==
  IF sentences = <<>>
  THEN IF buffer # <<>> THEN Append(hard, FALSE) ELSE hard
  ELSE LET sentence == Head(sentences)
           rest == Tail(sentences)
       IN IF Len(buffer) + Len(sentence) + 1 <= maxLen
          THEN PackHard(rest,
                        IF buffer # <<>> THEN buffer \o <<" ">> \o sentence ELSE sentence,
                        hard, maxLen)
          ELSE LET flushed == IF buffer # <<>> THEN Append(hard, FALSE) ELSE hard
               IN IF Len(sentence) > maxLen
                  THEN PackHard(rest, <<>>,
                                flushed \o [k \in 1..Len(HardSplit(sentence, maxLen)) |-> TRUE],
                                maxLen)
                  ELSE PackHard(rest, sentence, flushed, maxLen)

\* C29: chunkText packs greedily: it appends the next sentence to the buffer
\* when len(buffer) + len(sentence) + 1 <= maxLen and flushes the buffer
\* otherwise, so of two adjacent chunks that are not pieces of a hard split
\* the first, a space and the first sentence of the second exceed maxLen; and
\* chunkText('Hello world. This is a test.', 15) is ['Hello world.',
\* 'This is a test.'].
C29_GreedyPacking ==
  ret.fn = "chunkText" =>
    LET chunks == ret.chunks
        hard == PackHard(Split(Collapse(Trim(str))), <<>>, <<>>, maxLenArg)
    IN /\ Len(hard) = Len(chunks)
       /\ \A i \in 1..(Len(chunks) - 1) :
            (~hard[i] /\ ~hard[i + 1])
            => Len(chunks[i]) + 1 + Len(Split(chunks[i + 1])[1]) > maxLenArg
       /\ (str = Example.text /\ maxLenArg = Example.maxLen)
          => chunks = <<SubSeq(Example.text, 1, 12), SubSeq(Example.text, 14, 28)>>

\* chunkText has returned for the example
C29_Witness ==
  /\ ret.fn = "chunkText"
  /\ str = Example.text
  /\ maxLenArg = Example.maxLen
  /\ Len(ret.chunks) = 2

\* C30: chunkText puts a sentence boundary only at a sentence terminator
\* that is followed by white space (or ends the text), never at a terminator
\* directly followed by another unit as in '3.14' or 'a.b': every sentence
\* but the last ends with a terminator, and the sentences joined by the
\* single space that separated them are the cleaned text.
C30_BoundaryNeedsWhiteSpace ==
  ret.fn = "chunkText" =>
    /\ \A i \in 1..(Len(ret.sentences) - 1) :
         ret.sentences[i][Len(ret.sentences[i])] \in Terminal
    /\ Join(ret.sentences) = Collapse(Trim(str))

\* C31: chunkText returns no chunk exactly when the text is empty or white
\* space only; otherwise it returns at least one chunk, none of them empty;
\* and a text without a sentence terminator gives one chunk if its cleaned
\* length is at most maxLen and ceil(length / maxLen) pieces otherwise.
C31_ChunkCount ==
  ret.fn = "chunkText" =>
    LET length == Len(Collapse(Trim(str)))
    IN /\ (ret.chunks = <<>>) = (NonBlank(str) = {})
       /\ \A i \in 1..Len(ret.chunks) : ret.chunks[i] # <<>>
       /\ (NonBlank(str) # {} /\ \A k \in 1..Len(str) : str[k] \notin Terminal)
          => Len(ret.chunks) = IF length <= maxLenArg THEN 1
                               ELSE (length + maxLenArg - 1) \div maxLenArg

\* a text without a terminator was split hard, the last piece shorter
C31_Witness ==
  /\ ret.fn = "chunkText"
  /\ \A k \in 1..Len(str) : str[k] \notin Terminal
  /\ Len(ret.chunks) >= 2
  /\ Len(ret.chunks[Len(ret.chunks)]) < maxLenArg
  /\ Len(Collapse(Trim(str))) < Len(str)

\* C32: the hard split of a sentence longer than maxLen never cuts inside a
\* character of several units: no chunk ends with the first half of a
\* surrogate pair and no chunk begins with the second half.
C32_PairsKeptWhole ==
  ret.fn = "chunkText" =>
    \A i \in 1..Len(ret.chunks) :
      /\ ret.chunks[i][Len(ret.chunks[i])] # "HI"
      /\ ret.chunks[i][1] # "LO"

\* the tts.speak calls of a component that are pending or being played
InFlight == {startup[i] : i \in 1..Len(startup)} \cup {utterances[i] : i \in 1..Len(utterances)}

\* C33: while the remote backend of the mobile branch plays a sentence of
\* SentenceModule, onBoundary is never invoked and the InteractiveText of
\* the sentence shows no active token (its active index is -1).
C33_NoActiveTokenOnMobile ==
  (mobile /\ utterances # <<>>) =>
    /\ act.task # "SentenceBoundary"
    /\ ActiveToken = -1

\* C34: when the play mode of SentenceModule changes while a sentence is
\* playing, playback is restarted: after the change the module is playing
\* and the current sentence is being spoken at the rate of the new mode.
C34_ModeChangeRestarts ==
  (act.task = "ClickPlayMode" /\ act.wasPlaying) =>
    /\ isPlaying
    /\ InFlight # {}
    /\ \A c \in InFlight : Rate(c.mode) = Rate(playMode)

\* C35: looping of SentenceModule is driven by onEnd: with looping on the
\* sentence is spoken again after each completion, and once the user has
\* turned looping off or paused, no speak() is issued after the utterance
\* in progress has ended, so every speak() issued by the timer of onEnd
\* finds looping on.
C35_LoopStopsWhenTurnedOff ==
  (act.task = "LoopTimer" /\ act.spoke) => isLooping

\* C36: auto-play of TextModule started at index k of the play list, with
\* no user action after it, speaks the sentences k, k+1, ... once each and
\* in order, each but the first started by onEnd of the one before, and when
\* the last has ended the module is idle: not playing, no active sentence,
\* spoken character index -1. After a click on a sentence or a stop by
\* togglePlay the play list does not advance: every speak() of playNext
\* follows, in the calls since the last user action, a start by togglePlay.
C36_AutoPlayInOrder ==
  /\ \A i \in 1..Len(log) :
       log[i].from = "playNext" =>
         /\ i > 1
         /\ log[1].from = "togglePlay"
         /\ log[i].index = log[i - 1].index + 1
  /\ (log # <<>> /\ log[1].from = "togglePlay" /\ InFlight = {}) =>
       /\ log[Len(log)].index = PlayListLen - 1
       /\ ~isPlaying /\ activeSentence = NoSentence /\ spokenIdx = -1

\* C37: once QuizModal is unmounted, and its cleanup has called
\* tts.cancel(), no tts.speak() is issued on its behalf: the auto-play timer
\* of a listening question that was set before the unmount starts no speech.
C37_NoSpeakAfterUnmount ==
  act.spoke => mounted

\* the items of every unit but one, as the getters return them
Others(id) ==
  [unitId \in UnitIds \ {id} |-> <<getWords(unitId), getSentences(unitId), getTexts(unitId)>>]

OthersBefore(id) ==
  [unitId \in UnitIds \ {id} |->
     <<OfUnit(ret.before.words, unitId), OfUnit(ret.before.sentences, unitId),
       OfUnit(ret.before.texts, unitId)>>]

\* C38: db.deleteUnit(id) removes the unit id and every word, sentence and
\* text whose unitId is id, and leaves every other unit and item as it was:
\* afterwards getWords(id), getSentences(id) and getTexts(id) are empty, and
\* the other units and what the getters return for them are the same.
C38_DeleteUnitCascades ==
  ret.fn = "deleteUnit" =>
    /\ ret.id \notin Ids(dbUnits)
    /\ getWords(ret.id) = <<>> /\ getSentences(ret.id) = <<>> /\ getTexts(ret.id) = <<>>
    /\ Others(ret.id) = OthersBefore(ret.id)
    /\ Ids(dbUnits) = Ids(ret.before.units) \ {ret.id}
    /\ Len(dbUnits) = Len(ret.before.units) - (IF ret.id \in Ids(ret.before.units) THEN 1 ELSE 0)
    /\ Len(dbWords) + Len(dbSentences) + Len(dbTexts)
         = Len(ret.before.words) + Len(ret.before.sentences) + Len(ret.before.texts)
           - Len(OfUnit(ret.before.words, ret.id)) - Len(OfUnit(ret.before.sentences, ret.id))
           - Len(OfUnit(ret.before.texts, ret.id))

C38_Witness ==
  /\ ret.fn = "deleteUnit"
  /\ ret.id \in Ids(ret.before.units)
  /\ Len(ret.before.units) = MaxUnits
  /\ OfUnit(ret.before.words, ret.id) # <<>>
  /\ OfUnit(ret.before.sentences, ret.id) # <<>>
  /\ OfUnit(ret.before.texts, ret.id) # <<>>
  /\ dbWords # <<>> /\ dbSentences # <<>> /\ dbTexts # <<>>

====
